---- MODULE Spec2Model ----
(***************************************************************************)
(* Model of the DB2 tool gateway in src/server.py: the process-wide        *)
(* connection handle `conn` and the four request handlers that read or     *)
(* write it (connect_db, run_sql, call_sp and the tablespace resource).    *)
(* The ibm_db driver is external: every driver call is a nondeterministic  *)
(* choice among returning normally, returning a falsy value, or raising.   *)
(* Strings that the code inspects character by character (the SQL text)    *)
(* are sequences of one-character strings; messages built by f-strings are *)
(* sequences of their parts.                                               *)
(***************************************************************************)
EXTENDS Integers, Sequences, FiniteSets, TLC

VARIABLES
    conn,       \* the module-level connection handle (NoneH while absent)
    sessions,   \* driver side: database of every session opened so far, never closed
    last        \* the request handled last: its inputs, what the driver did, its result

vars == <<conn, sessions, last>>

----------------------------------------------------------------------------
(* Bounds of the model *)

MaxHandles == 2     \* handles the driver hands out before connect stops succeeding
MaxRows == 2        \* rows in one result set
MaxArgs == 2        \* arguments of one stored-procedure call

----------------------------------------------------------------------------
(* Python string operations used by execute_sql *)

LowerLetters == <<"a","b","c","d","e","f","g","h","i","j","k","l","m",
                  "n","o","p","q","r","s","t","u","v","w","x","y","z">>
UpperLetters == <<"A","B","C","D","E","F","G","H","I","J","K","L","M",
                  "N","O","P","Q","R","S","T","U","V","W","X","Y","Z">>

WhiteSpace == {" ", "\t", "\n", "\r"}

UpperChar(c) ==
    IF \E i \in 1..26 : LowerLetters[i] = c
    THEN UpperLetters[CHOOSE i \in 1..26 : LowerLetters[i] = c]
    ELSE c

Upper(s) == [i \in 1..Len(s) |-> UpperChar(s[i])]

RECURSIVE LStrip(_)
LStrip(s) == IF s # <<>> /\ Head(s) \in WhiteSpace THEN LStrip(Tail(s)) ELSE s

RECURSIVE RStrip(_)
RStrip(s) ==
    IF s # <<>> /\ s[Len(s)] \in WhiteSpace THEN RStrip(SubSeq(s, 1, Len(s) - 1)) ELSE s

Strip(s) == RStrip(LStrip(s))

StartsWith(s, p) == Len(s) >= Len(p) /\ SubSeq(s, 1, Len(p)) = p

SELECT == <<"S","E","L","E","C","T">>

\* mutant of IsSelect: the text is not trimmed before the test
IsSelect_untrimmed(sql) == StartsWith(Upper(sql), SELECT)

IsSelect(sql) == StartsWith(Upper(Strip(sql)), SELECT)

----------------------------------------------------------------------------
(* Configuration and the connection handle *)

DB2_HOSTNAME == "envhost"
DB2_PORT == "50000"
DB2_DATABASE == "envdb"
DB2_USERNAME == "envuser"
DB2_PASSWORD == "envpw"

\* Python's None (and any other falsy value the driver may return)
NoneH == [id |-> 0, db |-> "-"]

Truthy(h) == h.id # 0

ErrText == "driver error"

NOT_CONNECTED == <<"Database connection not established. Use connect_db first.">>

Call(f, h) == [fn |-> f, h |-> h]

----------------------------------------------------------------------------
(* connect_to_db *)

ConnectOutcomes == {"ok", "falsy", "raise"}

\* mutants of StoreHandle: a connect that keeps the handle it already has, and
\* a connect that forgets its handle when the driver raises
StoreHandle_keep(c, outcome, fresh) ==
    CASE outcome = "raise" -> c
      [] outcome = "ok" -> IF c.id # 0 THEN c ELSE fresh
      [] OTHER -> NoneH

StoreHandle_clear(c, outcome, fresh) ==
    CASE outcome = "ok" -> fresh
      [] OTHER -> NoneH

\* line 58, conn = ibm_db.connect(...): the assignment happens only when
\* the call returns, with whatever it returned
StoreHandle(c, outcome, fresh) ==
    CASE outcome = "raise" -> c
      [] outcome = "ok" -> fresh
      [] OTHER -> NoneH

connect_to_db(c, ip, port, username, password, dbname, outcome, fresh) ==
    LET calls == << Call("connect", NoneH) >>
        stored == StoreHandle(c, outcome, fresh)
    IN  IF outcome = "raise"
        THEN [conn |-> stored, raised |-> FALSE, calls |-> calls,
              ret |-> [status |-> "error",
                       message |-> <<"Connection error: ", ErrText>>]]
        ELSE IF Truthy(stored)
        THEN [conn |-> stored, raised |-> FALSE, calls |-> calls,
              ret |-> [status |-> "success",
                       message |-> <<"Successfully connected to DB2 database ",
                                     dbname, " on ", ip, ":", port>>]]
        ELSE [conn |-> stored, raised |-> FALSE, calls |-> calls,
              ret |-> [status |-> "error",
                       message |-> <<"Failed to connect to DB2 database">>]]

----------------------------------------------------------------------------
(* The driver's statement handle.  A script fixes what the driver does on  *)
(* each call made on the statement: which call raises (failAt, at its      *)
(* failIdx-th invocation), whether execute returns a truthy value, whether *)
(* the statement has a result set, and the columns and rows of that set.   *)
(* A statement without a result set reports zero fields and raises on the  *)
(* first fetch, which is the case call_stored_procedure's inner except     *)
(* clause is written for.                                                  *)

Values == {"SYSCATSPACE", "USERSPACE1"}

Layouts == { <<"TBSPACE">>, <<"OTHER">>, <<"OTHER", "TBSPACE">>,
             <<"TABLESPACE", "tbspace">> }

Range(f) == { f[i] : i \in DOMAIN f }

\* fetch_assoc returns one dictionary per row, keyed by the column names; a
\* cell is tagged with its column, so that cells of different columns differ
RowsOver(cols) == { [c \in Range(cols) |-> <<c, v>>] : v \in Values }

SeqsUpTo(S, n) == UNION { [1..k -> S] : k \in 0..n }

Script(failAt, failIdx, execTruthy, hasRS, cols, rows) ==
    [failAt |-> failAt, failIdx |-> failIdx, execTruthy |-> execTruthy,
     hasRS |-> hasRS, cols |-> cols, rows |-> rows]

\* scripts in which no call raises: every result set within the bounds
CleanScripts ==
    { Script("none", 1, t, FALSE, <<>>, <<>>) : t \in BOOLEAN }
    \cup UNION { { Script("none", 1, TRUE, TRUE, cols, rows) :
                     rows \in SeqsUpTo(RowsOver(cols), MaxRows) } :
                 cols \in Layouts }

\* scripts in which one call raises
FailScripts ==
    { Script(f, 1, TRUE, FALSE, <<>>, <<>>) :
        f \in {"exec_immediate", "prepare", "execute", "num_fields"} }
    \cup { Script("bind_param", i, TRUE, FALSE, <<>>, <<>>) : i \in 1..MaxArgs }
    \cup { Script("field_name", i, TRUE, TRUE, <<"OTHER", "TBSPACE">>, <<>>) : i \in 1..2 }
    \cup { Script("fetch_assoc", i, TRUE, TRUE, <<"TBSPACE">>, rows) :
             i \in 1..2, rows \in SeqsUpTo(RowsOver(<<"TBSPACE">>), 1) }

Scripts == CleanScripts \cup FailScripts

\* the scripts tried with every input: failures, and result sets of at most one row
SmallScripts == { s \in Scripts : Len(s.rows) <= 1 /\ Len(s.cols) <= 1 }

Rep(f, h, n) == [i \in 1..n |-> Call(f, h)]

\* the column and row loops shared by execute_sql and call_stored_procedure
FetchLoop(stmt, h) ==
    LET ncols == IF stmt.hasRS THEN Len(stmt.cols) ELSE 0
        nrows == IF stmt.hasRS THEN Len(stmt.rows) ELSE 0
        nameFails == stmt.failAt = "field_name" /\ stmt.failIdx <= ncols
        nameCalls == IF nameFails THEN stmt.failIdx ELSE ncols
        rowFails == \/ ~stmt.hasRS
                    \/ stmt.failAt = "fetch_assoc" /\ stmt.failIdx <= nrows + 1
        rowCalls == IF ~stmt.hasRS THEN 1
                    ELSE IF rowFails THEN stmt.failIdx ELSE nrows + 1
    IN  IF stmt.failAt = "num_fields"
        THEN [raisedAt |-> "num_fields", columns |-> <<>>, data |-> <<>>,
              calls |-> Rep("num_fields", h, 1)]
        ELSE IF nameFails
        THEN [raisedAt |-> "field_name", columns |-> <<>>, data |-> <<>>,
              calls |-> Rep("num_fields", h, 1) \o Rep("field_name", h, nameCalls)]
        ELSE [raisedAt |-> IF rowFails THEN "fetch_assoc" ELSE "none",
              columns |-> IF stmt.hasRS THEN stmt.cols ELSE <<>>,
              data |-> IF rowFails THEN <<>> ELSE stmt.rows,
              calls |-> Rep("num_fields", h, 1) \o Rep("field_name", h, nameCalls)
                        \o Rep("fetch_assoc", h, rowCalls)]

----------------------------------------------------------------------------
(* execute_sql *)

\* mutant of not_conn: the precondition check is missing
not_conn_never(c) == FALSE

\* lines 75 and 118: if not conn
not_conn(c) == ~Truthy(c)

\* mutant of statement_result: every success envelope carries data and columns
statement_result_data ==
    [status |-> "success", message |-> <<"SQL statement executed successfully">>,
     data |-> <<>>, columns |-> <<>>]

\* lines 108-111: the envelope of a statement that is not a SELECT
statement_result ==
    [status |-> "success", message |-> <<"SQL statement executed successfully">>]

execute_sql(c, sql, stmt) ==
    LET err == [status |-> "error", message |-> <<"SQL execution error: ", ErrText>>]
    IN  IF not_conn(c)
        THEN [ret |-> [status |-> "error", message |-> NOT_CONNECTED],
              raisedAt |-> "none", calls |-> <<>>]
        ELSE IF stmt.failAt = "exec_immediate"
        THEN [ret |-> err, raisedAt |-> "exec_immediate",
              calls |-> Rep("exec_immediate", c, 1)]
        ELSE IF IsSelect(sql)
        THEN LET f == FetchLoop(stmt, c) IN
             IF f.raisedAt # "none"
             THEN [ret |-> err, raisedAt |-> f.raisedAt,
                   calls |-> Rep("exec_immediate", c, 1) \o f.calls]
             ELSE [ret |-> [status |-> "success",
                            message |-> <<"SQL query executed successfully">>,
                            data |-> f.data, columns |-> f.columns],
                   raisedAt |-> "none",
                   calls |-> Rep("exec_immediate", c, 1) \o f.calls]
        ELSE [ret |-> statement_result, raisedAt |-> "none",
              calls |-> Rep("exec_immediate", c, 1)]

----------------------------------------------------------------------------
(* call_stored_procedure and the call_sp handler *)

\* mutant of no_result: the warning is reported as a success
no_result_success(sp_name) ==
    [status |-> "success",
     message |-> <<"Stored procedure ", sp_name,
                   " called, but returned no results or errors">>]

\* lines 172-176: execute returned a falsy value
no_result(sp_name) ==
    [status |-> "warning",
     message |-> <<"Stored procedure ", sp_name,
                   " called, but returned no results or errors">>]

\* lines 140-171: execute returned a truthy value; the inner try reads the
\* result set and its bare except answers for every exception of the read
fetched_result(sp_name, f) ==
    IF f.raisedAt # "none"
    THEN [status |-> "success",
          message |-> <<"Stored procedure ", sp_name, " executed successfully">>,
          data |-> <<>>]
    ELSE [status |-> "success",
          message |-> <<"Stored procedure ", sp_name, " executed successfully">>,
          data |-> f.data, columns |-> f.columns]

call_stored_procedure(c, sp_name, args, stmt) ==
    LET bindFails == stmt.failAt = "bind_param" /\ stmt.failIdx <= Len(args)
        nbind == IF bindFails THEN stmt.failIdx ELSE Len(args)
        err == [status |-> "error",
                message |-> <<"Stored procedure execution error: ", ErrText>>]
        pre == Rep("prepare", c, 1) \o Rep("bind_param", c, nbind)
    IN  IF not_conn(c)
        THEN [ret |-> [status |-> "error", message |-> NOT_CONNECTED],
              raisedAt |-> "none", calls |-> <<>>]
        ELSE IF stmt.failAt = "prepare"
        THEN [ret |-> err, raisedAt |-> "prepare", calls |-> Rep("prepare", c, 1)]
        ELSE IF bindFails
        THEN [ret |-> err, raisedAt |-> "bind_param", calls |-> pre]
        ELSE IF stmt.failAt = "execute"
        THEN [ret |-> err, raisedAt |-> "execute", calls |-> pre \o Rep("execute", c, 1)]
        ELSE IF stmt.execTruthy
        THEN LET f == FetchLoop(stmt, c) IN
             [ret |-> fetched_result(sp_name, f), raisedAt |-> f.raisedAt,
              calls |-> pre \o Rep("execute", c, 1) \o f.calls]
        ELSE [ret |-> no_result(sp_name), raisedAt |-> "none",
              calls |-> pre \o Rep("execute", c, 1)]

\* the lambda registered as call_sp: params["sp_name"] raises KeyError when
\* the field is missing, params.get("parameters", []) does not
call_sp_handler(c, params, stmt) ==
    IF "sp_name" \notin DOMAIN params
    THEN [raised |-> TRUE, ret |-> <<>>, raisedAt |-> "none", calls |-> <<>>]
    ELSE LET args == IF "parameters" \in DOMAIN params THEN params.parameters ELSE <<>>
             r == call_stored_procedure(c, params.sp_name, args, stmt)
         IN  [raised |-> FALSE, ret |-> r.ret, raisedAt |-> r.raisedAt, calls |-> r.calls]

----------------------------------------------------------------------------
(* get_tablespace_info *)

TABLESPACE_QUERY ==
    <<"S","E","L","E","C","T"," ","T","B","S","P","A","C","E"," ",
      "F","R","O","M"," ","S","Y","S","C","A","T",".",
      "T","A","B","L","E","S","P","A","C","E","S">>

possible_keys == <<"tbspace", "TBSPACE_NAME", "tbspace_name", "tablespace", "TABLESPACE">>

\* the for loop over possible_keys: the first alternate the record has, or "" if none
RECURSIVE FirstKey(_, _)
FirstKey(keys, record) ==
    IF keys = <<>> THEN ""
    ELSE IF Head(keys) \in DOMAIN record THEN Head(keys)
    ELSE FirstKey(Tail(keys), record)

\* mutant of Extract: the names are collected in reverse row order
RECURSIVE Extract_reversed(_, _)
Extract_reversed(data, key_name) ==
    IF data = <<>> THEN <<>>
    ELSE IF key_name \in DOMAIN Head(data)
         THEN Extract_reversed(Tail(data), key_name) \o <<Head(data)[key_name]>>
         ELSE Extract_reversed(Tail(data), key_name)

\* [ts[key_name] for ts in result["data"] if key_name in ts]
RECURSIVE Extract(_, _)
Extract(data, key_name) ==
    IF data = <<>> THEN <<>>
    ELSE IF key_name \in DOMAIN Head(data)
         THEN <<Head(data)[key_name]>> \o Extract(Tail(data), key_name)
         ELSE Extract(Tail(data), key_name)

\* lines 210-260: the record built from the envelope execute_sql returned
ProbeRecord(result) ==
    IF result.status = "success" /\ "data" \in DOMAIN result
    THEN IF Len(result.data) = 0
         THEN [tablespaces |-> <<>>, count |-> 0, message |-> "No tablespaces found"]
         ELSE LET sample_record == result.data[1]
                  alt == FirstKey(possible_keys, sample_record)
                  key_name == IF "TBSPACE" \in DOMAIN sample_record THEN "TBSPACE" ELSE alt
              IN  IF "TBSPACE" \notin DOMAIN sample_record /\ alt = ""
                  THEN [error |-> <<"Could not find tablespace key">>,
                        available_keys |-> DOMAIN sample_record,
                        sample_record |-> sample_record,
                        tablespaces |-> <<>>, count |-> 0]
                  ELSE LET tablespace_names == Extract(result.data, key_name)
                       IN  [tablespaces |-> tablespace_names,
                            count |-> Len(tablespace_names)]
    ELSE [tablespaces |-> <<>>, count |-> 0,
          error |-> <<"Query failed: ">> \o result.message]

\* mutant of needs_connect: every read reconnects
needs_connect_always(c) == TRUE

\* line 187: if not conn
needs_connect(c) == ~Truthy(c)

get_tablespace_info(c, outcome, fresh, stmt) ==
    LET cr == IF needs_connect(c)
              THEN connect_to_db(c, DB2_HOSTNAME, DB2_PORT, DB2_USERNAME,
                                 DB2_PASSWORD, DB2_DATABASE, outcome, fresh)
              ELSE [conn |-> c, calls |-> <<>>, ret |-> [status |-> "success"]]
    IN  IF cr.ret.status # "success"
        THEN [conn |-> cr.conn, calls |-> cr.calls, inner |-> <<>>, raisedAt |-> "none",
              ret |-> [tablespaces |-> <<>>, count |-> 0,
                       error |-> <<"Database connection failed">>]]
        ELSE IF ~Truthy(cr.conn)
        THEN [conn |-> cr.conn, calls |-> cr.calls, inner |-> <<>>, raisedAt |-> "none",
              ret |-> [tablespaces |-> <<>>, count |-> 0,
                       error |-> <<"Could not establish database connection">>]]
        ELSE LET ex == execute_sql(cr.conn, TABLESPACE_QUERY, stmt)
             IN  [conn |-> cr.conn, calls |-> cr.calls \o ex.calls, inner |-> ex.ret,
                  raisedAt |-> ex.raisedAt, ret |-> ProbeRecord(ex.ret)]

----------------------------------------------------------------------------
(* Inputs of the requests *)

\* texts whose trimmed, upper-cased form begins with SELECT
SelectTexts ==
    { <<"S","E","L","E","C","T"," ","1">>,
      <<"s","e","l","e","c","t"," ","1">>,
      <<" ","\t","S","e","L","e","C","t"," ","x","\n">>,
      <<"S","E","L","E","C","T">>,
      <<"S","E","L","E","C","T","E","D">>,
      TABLESPACE_QUERY }

\* texts whose trimmed, upper-cased form does not
OtherTexts ==
    { <<"S","E","L","E","C">>,
      <<"x","S","E","L","E","C","T">>,
      <<"(","s","e","l","e","c","t"," ","1",")">>,
      <<"S"," ","E","L","E","C","T">>,
      <<" ","i","n","s","e","r","t"," ","x">>,
      <<"D","E","L","E","T","E">>,
      <<" "," ">>,
      <<>> }

SqlTexts == SelectTexts \cup OtherTexts

SpNames == {"P1"}

ArgValues == {"a"}

\* the parameter object of call_sp: sp_name and parameters are each present or missing
SpParams ==
    { [sp_name |-> n] : n \in SpNames }
    \cup { [sp_name |-> n, parameters |-> a] :
             n \in SpNames, a \in SeqsUpTo(ArgValues, MaxArgs) }
    \cup { [parameters |-> a] : a \in SeqsUpTo(ArgValues, 1) }
    \cup { [other |-> "x"] }

Summary(stmt) ==
    [failAt |-> stmt.failAt, failIdx |-> stmt.failIdx,
     execTruthy |-> stmt.execTruthy, hasRS |-> stmt.hasRS]

NoScript == [failAt |-> "-", failIdx |-> 0, execTruthy |-> FALSE, hasRS |-> FALSE]

Last(op, before, sql, params, outcome, stmt, r, raised, inner) ==
    [op |-> op, connBefore |-> before, sql |-> sql, params |-> params,
     outcome |-> outcome, drv |-> stmt, ret |-> r.ret, raised |-> raised,
     raisedAt |-> r.raisedAt, calls |-> r.calls, inner |-> inner]

----------------------------------------------------------------------------
(* The state machine: one action per request handler *)

Init ==
    /\ conn = NoneH
    /\ sessions = <<>>
    /\ last = Last("init", NoneH, <<>>, <<>>, "-", NoScript,
                   [ret |-> <<>>, raisedAt |-> "none", calls |-> <<>>], FALSE, <<>>)

\* the handle the driver returns when the next connect succeeds
Fresh(dbname) == [id |-> Len(sessions) + 1, db |-> dbname]

Opened(outcome, dbname) == IF outcome = "ok" THEN Append(sessions, dbname) ELSE sessions

connect_db ==
    \E ip \in {"h1"}, port \in {"50000"}, dbname \in {DB2_DATABASE, "db2"},
       outcome \in ConnectOutcomes :
        /\ outcome = "ok" => Len(sessions) < MaxHandles
        /\ LET r == connect_to_db(conn, ip, port, "u", "p", dbname, outcome, Fresh(dbname))
           IN  /\ conn' = r.conn
               /\ sessions' = Opened(outcome, dbname)
               /\ last' = Last("connect_db", conn, <<>>, [dbname |-> dbname], outcome,
                               NoScript,
                               [ret |-> r.ret, calls |-> r.calls,
                                raisedAt |-> IF outcome = "raise" THEN "connect" ELSE "none"],
                               r.raised, <<>>)

ExecScripts ==
    { s \in Scripts : s.execTruthy /\ s.failAt \notin {"prepare", "bind_param", "execute"} }

\* the texts and the parameter object tried with every result set
FullTexts == { TABLESPACE_QUERY, <<"D","E","L","E","T","E">> }

FullParams == { [sp_name |-> "P1", parameters |-> <<>>] }

run_sql ==
    \E sql \in SqlTexts, stmt \in ExecScripts :
        /\ sql \in FullTexts \/ stmt \in SmallScripts
        /\ last' = Last("run_sql", conn, sql, <<>>, "-", Summary(stmt),
                        execute_sql(conn, sql, stmt), FALSE, <<>>)
        /\ UNCHANGED <<conn, sessions>>

ProcScripts == { s \in Scripts : s.failAt # "exec_immediate" }

call_sp ==
    \E params \in SpParams, stmt \in ProcScripts :
        /\ params \in FullParams \/ stmt \in SmallScripts
        /\ LET r == call_sp_handler(conn, params, stmt)
           IN  last' = Last("call_sp", conn, <<>>, params, "-", Summary(stmt),
                            r, r.raised, <<>>)
        /\ UNCHANGED <<conn, sessions>>

tablespace ==
    \E outcome \in ConnectOutcomes, stmt \in ExecScripts :
        /\ (conn = NoneH /\ outcome = "ok") => Len(sessions) < MaxHandles
        /\ conn # NoneH => outcome = "ok"
        /\ (conn = NoneH /\ outcome # "ok") => stmt = Script("none", 1, TRUE, FALSE, <<>>, <<>>)
        /\ LET r == get_tablespace_info(conn, outcome, Fresh(DB2_DATABASE), stmt)
           IN  /\ conn' = r.conn
               /\ sessions' = IF conn = NoneH THEN Opened(outcome, DB2_DATABASE)
                              ELSE sessions
               /\ last' = Last("tablespace", conn, <<>>, <<>>,
                               IF conn = NoneH THEN outcome ELSE "-",
                               Summary(stmt), r, FALSE, r.inner)

Next == connect_db \/ run_sql \/ call_sp \/ tablespace

Spec == Init /\ [][Next]_vars

----------------------------------------------------------------------------
(* Properties *)

Absent == NoneH

IsExecute == last.op = "run_sql"

\* call_stored_procedure was entered: the handler found params["sp_name"]
IsCallProcedure == last.op = "call_sp" /\ ~last.raised

Has(field) == field \in DOMAIN last.ret

DriverCalls(f) == { i \in 1..Len(last.calls) : last.calls[i].fn = f }

\* C1: Execute and CallProcedure on an absent Connection return status=error
\* with the fixed precondition message, make no driver call and leave the
\* Connection absent.
C1_AbsentPrecondition ==
    ((IsExecute \/ IsCallProcedure) /\ last.connBefore = Absent) =>
        /\ last.ret.status = "error"
        /\ last.ret.message =
             <<"Database connection not established. Use connect_db first.">>
        /\ DOMAIN last.ret = {"status", "message"}
        /\ last.calls = <<>>
        /\ conn = Absent

C1_Witness ==
    /\ IsCallProcedure
    /\ last.connBefore = Absent
    /\ last.drv.failAt = "none"
    /\ last.ret.status = "error"

\* C2: no operation moves the Connection from present back to absent, and only
\* an operation that calls the driver's connect moves it into present.
C2_NeverBackToAbsent ==
    /\ last.connBefore # Absent => conn # Absent
    /\ (last.connBefore = Absent /\ conn # Absent) => DriverCalls("connect") # {}

\* C3: every invocation of connect_db, run_sql and call_sp returns an envelope
\* whose status is success, error or warning, and never raises.
C3_Total ==
    last.op \in {"connect_db", "run_sql", "call_sp"} =>
        /\ ~last.raised
        /\ last.ret.status \in {"success", "error", "warning"}

\* what the driver did in the last stored-procedure call
ExecuteReturned ==
    DriverCalls("execute") # {} /\ last.raisedAt \notin {"prepare", "bind_param", "execute"}

FetchSteps == {"num_fields", "field_name", "fetch_assoc"}

\* C4 as stated: warning exactly when execute returned a falsy value, error
\* whenever prepare, bind, execute or a fetch step raises, success only when
\* execute returned a truthy value and no step raised.
C4_ThreeWayStatus ==
    (IsCallProcedure /\ last.connBefore # Absent) =>
        /\ last.ret.status = "warning" <=> (ExecuteReturned /\ ~last.drv.execTruthy)
        /\ last.raisedAt # "none" => last.ret.status = "error"
        /\ last.ret.status = "success" => (last.drv.execTruthy /\ last.raisedAt = "none")

\* C4 amended: warning exactly when execute returned a falsy value, error
\* exactly when prepare, bind or execute raises, success exactly when execute
\* returned a truthy value; an exception of a fetch step (num_fields,
\* field_name, fetch_assoc) gives status=success with data=[] and no columns.
C4_ThreeWayStatusAmended ==
    (IsCallProcedure /\ last.connBefore # Absent) =>
        /\ last.ret.status = "warning" <=> (ExecuteReturned /\ ~last.drv.execTruthy)
        /\ last.ret.status = "error" <=> last.raisedAt \in {"prepare", "bind_param", "execute"}
        /\ last.ret.status = "success" <=> (ExecuteReturned /\ last.drv.execTruthy)
        /\ last.raisedAt \in FetchSteps =>
             /\ last.ret.status = "success"
             /\ last.ret.data = <<>>
             /\ ~Has("columns")

C4_Witness ==
    /\ IsCallProcedure
    /\ last.connBefore # Absent
    /\ ExecuteReturned
    /\ ~last.drv.execTruthy
    /\ last.ret.status = "warning"

LatestHandle == [id |-> Len(sessions), db |-> sessions[Len(sessions)]]

\* C6: after a later successful Connect, every driver call of Execute and
\* CallProcedure is made on the handle that Connect opened, never on an
\* earlier one.
C6_SecondConnectReplaces ==
    /\ conn # Absent => (sessions # <<>> /\ conn = LatestHandle)
    /\ (IsExecute \/ IsCallProcedure) =>
         \A i \in 1..Len(last.calls) :
             sessions # <<>> /\ last.calls[i].h = LatestHandle

C6_Witness ==
    /\ IsExecute
    /\ Len(sessions) = 2
    /\ sessions[1] # sessions[2]
    /\ last.connBefore.id = 2
    /\ last.calls # <<>>
    /\ last.calls[1].h.db = sessions[2]

\* C7 as stated: a text that does not begin with SELECT (trimmed, upper-cased)
\* gives status=success without data and columns on a present Connection, and
\* a success envelope carries data and columns iff the text begins with SELECT.
C7_LexicalSelect ==
    (IsExecute /\ last.connBefore # Absent) =>
        /\ last.sql \in OtherTexts =>
             (last.ret.status = "success" /\ ~Has("data") /\ ~Has("columns"))
        /\ last.ret.status = "success" =>
             /\ Has("data") <=> last.sql \in SelectTexts
             /\ Has("columns") <=> last.sql \in SelectTexts

\* C7 amended: a text that does not begin with SELECT gives status=success
\* without data and columns whenever the driver's exec_immediate does not
\* raise, and status=error without them when it raises; a success envelope
\* carries data and columns iff the text begins with SELECT.
C7_LexicalSelectAmended ==
    (IsExecute /\ last.connBefore # Absent) =>
        /\ last.sql \in OtherTexts =>
             /\ ~Has("data") /\ ~Has("columns")
             /\ last.raisedAt \in {"none", "exec_immediate"}
             /\ last.raisedAt = "none" => last.ret.status = "success"
             /\ last.raisedAt = "exec_immediate" => last.ret.status = "error"
        /\ last.ret.status = "success" =>
             /\ Has("data") <=> last.sql \in SelectTexts
             /\ Has("columns") <=> last.sql \in SelectTexts

C7_Witness ==
    /\ IsExecute
    /\ last.connBefore # Absent
    /\ last.sql = <<" ","\t","S","e","L","e","C","t"," ","x","\n">>
    /\ last.ret.status = "success"
    /\ Has("data")
    /\ Len(last.ret.data) = 1

\* C8: a read of the tablespace resource on an absent Connection makes exactly
\* one connect, before any query; if that connect does not succeed the read
\* issues no query and returns tablespaces=[], count=0 and an error field; a
\* read on a present Connection makes no connect and keeps the handle.
C8_ImplicitConnect ==
    last.op = "tablespace" =>
        /\ ~last.raised
        /\ last.connBefore = Absent =>
             /\ DriverCalls("connect") = {1}
             /\ last.outcome # "ok" =>
                  /\ Len(last.calls) = 1
                  /\ last.ret.tablespaces = <<>>
                  /\ last.ret.count = 0
                  /\ Has("error")
        /\ last.connBefore # Absent =>
             /\ DriverCalls("connect") = {}
             /\ conn = last.connBefore

C8_Witness ==
    /\ last.op = "tablespace"
    /\ last.connBefore = Absent
    /\ last.outcome = "falsy"
    /\ Has("error")

\* the rows execute_sql handed to the probe
ProbeRows == IF "data" \in DOMAIN last.inner THEN last.inner.data ELSE <<>>

Column(rows, key) == [i \in 1..Len(rows) |-> rows[i][key]]

\* C9: rows that carry TBSPACE give tablespaces = their TBSPACE values in row
\* order and count = the number of rows; rows that carry neither TBSPACE nor
\* an alternate give tablespaces=[], count=0 and available_keys; the
\* alternates are tried in their fixed order; count = len(tablespaces) always.
C9_ProbeExtraction ==
    last.op = "tablespace" =>
        /\ last.ret.count = Len(last.ret.tablespaces)
        /\ (ProbeRows # <<>> /\ \A i \in 1..Len(ProbeRows) : "TBSPACE" \in DOMAIN ProbeRows[i]) =>
             /\ last.ret.tablespaces = Column(ProbeRows, "TBSPACE")
             /\ last.ret.count = Len(ProbeRows)
        /\ (ProbeRows # <<>> /\ \A i \in 1..Len(ProbeRows) :
                DOMAIN ProbeRows[i] \cap {"TBSPACE", "tbspace", "TBSPACE_NAME",
                                          "tbspace_name", "tablespace", "TABLESPACE"} = {}) =>
             /\ last.ret.tablespaces = <<>>
             /\ last.ret.count = 0
             /\ Has("available_keys")
        /\ (ProbeRows # <<>> /\ \A i \in 1..Len(ProbeRows) :
                DOMAIN ProbeRows[i] = {"TABLESPACE", "tbspace"}) =>
             last.ret.tablespaces = Column(ProbeRows, "tbspace")

C9_Witness ==
    /\ last.op = "tablespace"
    /\ Len(ProbeRows) = 2
    /\ "TBSPACE" \in DOMAIN ProbeRows[1]
    /\ ProbeRows[1]["TBSPACE"] # ProbeRows[2]["TBSPACE"]
    /\ last.ret.count = 2

\* C10: a Connect in which the driver raises returns status=error and leaves
\* the Connection as it was; the Execute or CallProcedure that follows runs
\* on the earlier handle, or finds the Connection still absent.
C10_Step ==
    /\ (last'.op = "connect_db" /\ last'.outcome = "raise") =>
         /\ last'.ret.status = "error"
         /\ last'.connBefore = conn
         /\ conn' = conn
    /\ (/\ last.op = "connect_db" /\ last.outcome = "raise"
        /\ last'.op \in {"run_sql", "call_sp"} /\ ~last'.raised) =>
         /\ last.connBefore = Absent =>
              /\ last'.calls = <<>>
              /\ last'.ret.status = "error"
         /\ last.connBefore # Absent =>
              /\ last'.calls # <<>>
              /\ \A i \in 1..Len(last'.calls) : last'.calls[i].h = last.connBefore

C10_FailedConnectKeepsHandle == [][C10_Step]_vars

C10_Witness ==
    /\ last.op = "connect_db"
    /\ last.outcome = "raise"
    /\ last.connBefore # Absent
    /\ conn = last.connBefore

====
